---- MODULE Spec2Model ----
(***************************************************************************)
(* SageMaker Debugger notebook mnist_tensor_analysis.ipynb: the status     *)
(* polling cells, the custom smdebug rules (ActivationOutputs,             *)
(* ActivationInputs, GradientsLayer, GradientsAcrossLayers, WeightRatio,   *)
(* Inputs, Outputs) and the cells that run them with invoke_rule.          *)
(*                                                                         *)
(* Numbers are exact rationals <<num, den>> in lowest terms (den > 0);     *)
(* np.inf is <<1, 0>>.  Floating-point rounding is not modelled.           *)
(* Dictionary keys carry their Python type: <<"str", name>>, <<"int", s>>. *)
(***************************************************************************)
EXTENDS Integers, Sequences, FiniteSets, TLC

(* ------------------------------ bounds -------------------------------- *)
\* the training job saves at most MaxSteps steps (steps 0 .. MaxSteps-1)
MaxSteps == 2
\* number of direct invoke_at_step notifications in SpecNotify
MaxNotify == 2

(* --------------------------- tensor names ----------------------------- *)
\* names of the tensors saved by the MXNet MNIST job (collection "all")
TensorNames ==
  {"conv0_relu_output_0", "conv1_relu_output_0",
   "conv0_relu_input_0", "conv1_relu_input_0",
   "gradient/conv0_weight", "gradient/conv1_weight",
   "gradient/dense0_weight", "conv0_weight",
   "conv1_weight", "conv0_input_0",
   "conv0_output_0"}

\* the characters of a tensor name
NameText(n) ==
  CASE n = "conv0_relu_output_0" ->
         <<"c","o","n","v","0","_","r","e","l","u","_","o","u","t","p","u","t","_","0">>
    [] n = "conv1_relu_output_0" ->
         <<"c","o","n","v","1","_","r","e","l","u","_","o","u","t","p","u","t","_","0">>
    [] n = "conv0_relu_input_0" ->
         <<"c","o","n","v","0","_","r","e","l","u","_","i","n","p","u","t","_","0">>
    [] n = "conv1_relu_input_0" ->
         <<"c","o","n","v","1","_","r","e","l","u","_","i","n","p","u","t","_","0">>
    [] n = "gradient/conv0_weight" ->
         <<"g","r","a","d","i","e","n","t","/","c","o","n","v","0","_","w","e","i","g","h","t">>
    [] n = "gradient/conv1_weight" ->
         <<"g","r","a","d","i","e","n","t","/","c","o","n","v","1","_","w","e","i","g","h","t">>
    [] n = "gradient/dense0_weight" ->
         <<"g","r","a","d","i","e","n","t","/","d","e","n","s","e","0","_","w","e","i","g","h","t">>
    [] n = "conv0_weight" ->
         <<"c","o","n","v","0","_","w","e","i","g","h","t">>
    [] n = "conv1_weight" ->
         <<"c","o","n","v","1","_","w","e","i","g","h","t">>
    [] n = "conv0_input_0" ->
         <<"c","o","n","v","0","_","i","n","p","u","t","_","0">>
    [] n = "conv0_output_0" ->
         <<"c","o","n","v","0","_","o","u","t","p","u","t","_","0">>


(* ----------------------- name filters of the rules -------------------- *)
RuleKinds ==
  {"ActivationOutputs", "ActivationInputs", "GradientsLayer",
   "GradientsAcrossLayers", "WeightRatio", "Inputs", "Outputs"}

\* the regex argument of base_trial.tensor_names(regex=...) in each rule
RuleRegex(kind) ==
  CASE kind = "ActivationOutputs"     -> <<".","*","r","e","l","u","_","o","u","t","p","u","t">>
    [] kind = "ActivationInputs"      -> <<".","*","r","e","l","u","_","i","n","p","u","t">>
    [] kind = "GradientsLayer"        -> <<".","*","g","r","a","d","i","e","n","t">>
    [] kind = "GradientsAcrossLayers" -> <<".","*","g","r","a","d","i","e","n","t">>
    [] kind = "WeightRatio"           -> <<".","*","w","e","i","g","h","t">>
    [] kind = "Inputs"                -> <<".","*","i","n","p","u","t">>
    [] kind = "Outputs"               -> <<".","*","o","u","t","p","u","t">>

\* mutant: every rule keeps the test of ActivationOutputs it was copied from
RuleExcludeGradients(kind) ==
  <<"g","r","a","d","i","e","n","t","s">>

\* the substring of `if "<substring>" not in tname`; << >> when the rule has
\* no such test
RuleExclude(kind) ==
  CASE kind = "ActivationOutputs"     -> <<"g","r","a","d","i","e","n","t","s">>
    [] kind = "ActivationInputs"      -> <<"g","r","a","d","i","e","n","t","s">>
    [] kind = "GradientsLayer"        -> << >>
    [] kind = "GradientsAcrossLayers" -> << >>
    [] kind = "WeightRatio"           -> <<"g","r","a","d","i","e","n","t">>
    [] kind = "Inputs"                -> <<"r","e","l","u">>
    [] kind = "Outputs"               -> <<"r","e","l","u">>

\* text[i .. i+Len(lit)-1] = lit
OccursAt(text, lit, i) ==
  /\ i + Len(lit) - 1 <= Len(text)
  /\ \A j \in 1..Len(lit) : text[i + j - 1] = lit[j]

\* Python `sub in text`
Contains(text, sub) ==
  \E i \in 1..(Len(text) + 1) : OccursAt(text, sub, i)

\* re.match of a pattern of the form ".*literal" or "literal": the match is
\* anchored at the start of the text, ".*" consumes any prefix
RegexMatch(regex, text) ==
  IF Len(regex) >= 2 /\ regex[1] = "." /\ regex[2] = "*"
  THEN Contains(text, SubSeq(regex, 3, Len(regex)))
  ELSE OccursAt(text, regex, 1)

\* base_trial.tensor_names(regex=...): the names the for loop iterates over
RegexNames(kind) ==
  {n \in TensorNames : RegexMatch(RuleRegex(kind), NameText(n))}

\* mutant: the `not in tname` test is left out
NotExcludedAlways(kind, n) ==
  TRUE

\* the `if "<substring>" not in tname` test inside the loop
NotExcluded(kind, n) ==
  RuleExclude(kind) = << >> \/ ~Contains(NameText(n), RuleExclude(kind))


(* ------------------------------ numbers ------------------------------- *)
RECURSIVE GCD(_, _)
GCD(a, b) ==
  IF b = 0 THEN a ELSE GCD(b, a % b)

Abs(x) ==
  IF x < 0 THEN -x ELSE x

\* the rational n/d (d > 0) in lowest terms
Rat(n, d) ==
  LET g == GCD(Abs(n), d) IN <<n \div g, d \div g>>

RatZero ==
  <<0, 1>>

\* np.inf
Inf ==
  <<1, 0>>

RatAdd(a, b) ==
  Rat(a[1] * b[2] + b[1] * a[2], a[2] * b[2])

\* a < b, also when one side is np.inf
RatLess(a, b) ==
  a[1] * b[2] < b[1] * a[2]

RECURSIVE SumSeq(_)
SumSeq(xs) ==
  IF xs = << >> THEN 0 ELSE Head(xs) + SumSeq(Tail(xs))

(* --------------------------- numpy arrays ----------------------------- *)
\* an array is [shape |-> <<d1, ..., dk>>, data |-> row-major elements]

\* np.sum(tensor, axis=0): element j of the result adds the elements
\* j, j + stride, j + 2*stride, ... of the row-major data
NpSumAxis0(tensor) ==
  LET batch  == tensor.shape[1]
      stride == Len(tensor.data) \div batch
  IN [shape |-> Tail(tensor.shape),
      data  |-> [j \in 1..stride |->
                   SumSeq([i \in 1..batch |-> tensor.data[(i - 1) * stride + j]])]]

\* mutant: the division by the batch size is left out
BatchOverSumNoDivision(tensor) ==
  LET s == NpSumAxis0(tensor)
  IN [shape |-> s.shape,
      data  |-> [j \in 1..Len(s.data) |-> Rat(s.data[j], 1)]]

\* batch_over_sum = np.sum(tensor, axis=0) / tensor.shape[0]
BatchOverSum(tensor) ==
  LET s == NpSumAxis0(tensor)
  IN [shape |-> s.shape,
      data  |-> [j \in 1..Len(s.data) |-> Rat(s.data[j], tensor.shape[1])]]

\* np.var(tensor.flatten()): mean of squares minus square of the mean
NpVar(tensor) ==
  LET xs == tensor.data
      n  == Len(xs)
      s1 == SumSeq(xs)
      s2 == SumSeq([i \in 1..n |-> xs[i] * xs[i]])
  IN Rat(n * s2 - s1 * s1, n * n)

\* the Python int 0 that initialises an entry of the activation rules
PyZero ==
  [shape |-> << >>, data |-> <<RatZero>>]

\* acc += arr: a scalar on the left is broadcast over arr
PyAdd(acc, arr) ==
  IF acc.shape = << >>
  THEN [shape |-> arr.shape,
        data  |-> [j \in 1..Len(arr.data) |-> RatAdd(acc.data[1], arr.data[j])]]
  ELSE [shape |-> arr.shape,
        data  |-> [j \in 1..Len(arr.data) |-> RatAdd(acc.data[j], arr.data[j])]]

(* ----------------------- the saved tensor trace ----------------------- *)
Trials ==
  {1, 2}

\* the element values of each tensor at step 0 of the first job
BaseTensor(n) ==
  CASE n = "conv0_relu_output_0" ->
         [shape |-> <<4, 3>>, data |-> <<1,1,1, 1,1,1, 1,1,1, 1,1,1>>]
    [] n = "conv1_relu_output_0" ->
         [shape |-> <<2, 2>>, data |-> <<1,0, 2,0>>]
    [] n = "conv0_relu_input_0" ->
         [shape |-> <<2, 3>>, data |-> <<1,-2,0, 2,-1,3>>]
    [] n = "conv1_relu_input_0" ->
         [shape |-> <<3, 2>>, data |-> <<-1,-2, -3,-1, -2,-2>>]
    [] n = "gradient/conv0_weight" ->
         [shape |-> <<4, 5>>,
          data  |-> <<1,-1,0,0,0, 0,0,0,0,0, 0,0,0,0,0, 0,0,0,0,0>>]
    [] n = "gradient/conv1_weight" ->
         [shape |-> <<2, 2>>, data |-> <<1,-1, 0,0>>]
    [] n = "gradient/dense0_weight" ->
         [shape |-> <<2, 5>>, data |-> <<2,0,1,1,1, 1,1,1,1,1>>]
    [] n = "conv0_weight" ->
         [shape |-> <<2, 2>>, data |-> <<1,2, 3,4>>]
    [] n = "conv1_weight" ->
         [shape |-> <<1, 3>>, data |-> <<0,1,-1>>]
    [] n = "conv0_input_0" ->
         [shape |-> <<2, 2>>, data |-> <<5,0, 1,2>>]
    [] n = "conv0_output_0" ->
         [shape |-> <<2, 1>>, data |-> <<3, -3>>]

\* base_trial.tensor(tname).value(step) when the fetch succeeds: the saved
\* value differs from job to job and from step to step
TensorValue(trial, n, s) ==
  LET b == BaseTensor(n)
  IN [shape |-> b.shape,
      data  |-> [i \in 1..Len(b.data) |-> b.data[i] * (s + 1) * trial]]

(* ---------------------------- dictionaries ---------------------------- *)
StrKey(n) ==
  <<"str", n>>

IntKey(s) ==
  <<"int", s>>

EmptyDict ==
  << >>

\* d[k] = v
DictSet(d, k, v) ==
  [x \in (DOMAIN d) \cup {k} |-> IF x = k THEN v ELSE d[x]]

(* --------------------- the loop bodies of the rules ------------------- *)
\* ActivationOutputs / ActivationInputs: `if tname not in self.tensors` and
\* `if step not in self.tensors[tname]`: the entry is created holding 0
Placeholder(tensors, n, s) ==
  LET t1 == IF StrKey(n) \notin DOMAIN tensors
            THEN DictSet(tensors, StrKey(n), EmptyDict) ELSE tensors
  IN IF IntKey(s) \notin DOMAIN t1[StrKey(n)]
     THEN DictSet(t1, StrKey(n), DictSet(t1[StrKey(n)], IntKey(s), PyZero))
     ELSE t1

\* ActivationOutputs / ActivationInputs, after a successful fetch
ActivationUpdate(tensors, n, s, tensor) ==
  LET t2 == Placeholder(tensors, n, s)
      batch_over_sum == BatchOverSum(tensor)
  IN DictSet(t2, StrKey(n),
             DictSet(t2[StrKey(n)], IntKey(s),
                     PyAdd(t2[StrKey(n)][IntKey(s)], batch_over_sum)))

\* mutant: the inner mapping is created but the tensor is not stored
RawUpdateNoStore(tensors, n, s, tensor) ==
  IF StrKey(n) \notin DOMAIN tensors
  THEN DictSet(tensors, StrKey(n), EmptyDict) ELSE tensors

\* mutant: the tensor is stored under every step the name already has
RawUpdateAllSteps(tensors, n, s, tensor) ==
  LET t1 == IF StrKey(n) \notin DOMAIN tensors
            THEN DictSet(tensors, StrKey(n), EmptyDict) ELSE tensors
      inner == DictSet(t1[StrKey(n)], IntKey(s), tensor)
  IN DictSet(t1, StrKey(n), [j \in DOMAIN inner |-> tensor])

\* mutant: the tensor is stored under the step that follows
RawUpdateNextStep(tensors, n, s, tensor) ==
  LET t1 == IF StrKey(n) \notin DOMAIN tensors
            THEN DictSet(tensors, StrKey(n), EmptyDict) ELSE tensors
  IN DictSet(t1, StrKey(n), DictSet(t1[StrKey(n)], IntKey(s + 1), tensor))

\* mutant: the inner mapping is created anew at every fetch
RawUpdateFreshMapping(tensors, n, s, tensor) ==
  DictSet(tensors, StrKey(n), DictSet(EmptyDict, IntKey(s), tensor))

\* mutant: the tensor is added to the value the step already has
RawUpdateAccumulate(tensors, n, s, tensor) ==
  LET t1 == IF StrKey(n) \notin DOMAIN tensors
            THEN DictSet(tensors, StrKey(n), EmptyDict) ELSE tensors
      old == t1[StrKey(n)]
      new == IF IntKey(s) \in DOMAIN old
             THEN [shape |-> tensor.shape,
                   data  |-> [i \in 1..Len(tensor.data) |->
                                old[IntKey(s)].data[i] + tensor.data[i]]]
             ELSE tensor
  IN DictSet(t1, StrKey(n), DictSet(old, IntKey(s), new))

\* GradientsLayer / WeightRatio / Inputs / Outputs, after a successful fetch
RawUpdate(tensors, n, s, tensor) ==
  LET t1 == IF StrKey(n) \notin DOMAIN tensors
            THEN DictSet(tensors, StrKey(n), EmptyDict) ELSE tensors
  IN DictSet(t1, StrKey(n), DictSet(t1[StrKey(n)], IntKey(s), tensor))

\* GradientsAcrossLayers, after a successful fetch
AcrossUpdate(tensors, n, s, tensor) ==
  LET t1 == IF IntKey(s) \notin DOMAIN tensors
            THEN DictSet(tensors, IntKey(s), <<Inf, RatZero>>) ELSE tensors
      variance == NpVar(tensor)
      pair == t1[IntKey(s)]
  IN IF RatLess(variance, pair[1])
     THEN DictSet(t1, IntKey(s), <<variance, pair[2]>>)
     ELSE IF RatLess(pair[2], variance)
          THEN DictSet(t1, IntKey(s), <<pair[1], variance>>)
          ELSE t1

IsActivation(kind) ==
  kind \in {"ActivationOutputs", "ActivationInputs"}

IsAcross(kind) ==
  kind = "GradientsAcrossLayers"

\* the body of the try block of invoke_at_step for the rule `kind`
LoopBody(kind, tensors, n, s, tensor) ==
  IF IsActivation(kind) THEN ActivationUpdate(tensors, n, s, tensor)
  ELSE IF IsAcross(kind) THEN AcrossUpdate(tensors, n, s, tensor)
  ELSE RawUpdate(tensors, n, s, tensor)


(* ------------------------- the notebook's cells ----------------------- *)
Cell(op, kind, trial) ==
  [op |-> op, kind |-> kind, trial |-> trial]

\* the code cells in the order the notebook runs them; the notebook is
\* analysed section by section, a run ends at the section break it reaches
Program ==
  << Cell("fit", "-", 1), Cell("describe", "-", 1), Cell("poll", "-", 1),
     Cell("create_trial", "-", 1),
     Cell("rule", "ActivationOutputs", 1), Cell("plot", "-", 1),
     Cell("rule", "ActivationInputs", 1), Cell("plot", "-", 1),
     Cell("rule", "GradientsLayer", 1), Cell("plot", "-", 1),
     Cell("rule", "GradientsAcrossLayers", 1), Cell("plot", "-", 1),
     Cell("rule", "WeightRatio", 1), Cell("plot", "-", 1),
     Cell("rule", "Inputs", 1), Cell("plot", "-", 1),
     Cell("rule", "Outputs", 1), Cell("plot", "-", 1),
     Cell("fit", "-", 2), Cell("describe", "-", 2), Cell("poll", "-", 2),
     Cell("create_trial", "-", 2),
     Cell("break", "-", 0),
     Cell("rule", "GradientsLayer", 1), Cell("capture", "GradientsLayer", 1),
     Cell("rule", "GradientsLayer", 2), Cell("capture", "GradientsLayer", 2),
     Cell("plot", "-", 2),
     Cell("break", "-", 0),
     Cell("rule", "ActivationInputs", 1),
     Cell("capture", "ActivationInputs", 1),
     Cell("rule", "ActivationInputs", 2),
     Cell("capture", "ActivationInputs", 2),
     Cell("plot", "-", 2),
     Cell("break", "-", 0) >>

(* ------------------------------- state -------------------------------- *)
VARIABLES
  cell,         \* index in Program of the cell being run
  pc,           \* position inside the cell
  job,          \* job[t]: the status SageMaker holds for training job t
  written,      \* written[t]: number of steps job t has saved (0 .. written-1)
  description,  \* the notebook variable `description`
  trials,       \* the trials created so far (trial1, trial2)
  rule,         \* the notebook variable `rule`: [kind, trial] of the instance
  tensors,      \* rule.tensors
  step,         \* the step invoke_rule is at
  todo,         \* names the for loop of invoke_at_step has not visited yet
  failed,       \* names whose fetch failed in the current invoke_at_step
  errors,       \* history: the (name, step) of every logged fetch failure
  raised,       \* the exception propagating out of the cell's try block
  unhandled,    \* the exception that reached the notebook's top level
  aggCount,     \* history: how often the try block completed for (name, step)
  notified,     \* history: how often invoke_at_step(s) was called
  result,       \* what the last call of invoke_at_step returned
  captured,     \* dict_gradients / dict_activation_inputs: label -> reference
  heap,         \* the referenced sub-mappings of the instances `rule` has left
  nb,           \* the tutorial notebook the kernel runs ("debugger": this one)
  line,         \* index in Cells(nb) of the statement being run
  phase,        \* position inside the statement
  error,        \* the exception that stopped the tutorial notebook
  tjob,         \* tjob[j]: status of the training / compilation job
  endpoint,     \* endpoint[e]: status of the SageMaker endpoint e
  handle,       \* the model and predictor objects the notebook holds
  iter,         \* the loop variable of a request loop or of the clean-up loop
  served,       \* the endpoint that served the last inference request
  params,       \* the notebook variables that configure the training job
  tname,        \* the tensor name a rule's filter is applied to
  keys,         \* the names the filter lets the rule record
  digits,       \* displayClusters: len(digits), the images of one cluster
  height        \* displayClusters: the rows of the subplot grid, once computed

vars ==
  <<cell, pc, job, written, description, trials, rule, tensors, step, todo,
    failed, errors, raised, unhandled, aggCount, notified, result,
    captured, heap, nb, line, phase, error, tjob, endpoint, handle, iter,
    served, params, tname, keys, digits, height>>

jobVars ==
  <<job, written>>

ruleVars ==
  <<rule, tensors, step, todo, failed, errors, aggCount, notified, result>>

compareVars ==
  <<captured, heap>>

debuggerVars ==
  <<cell, pc, job, written, description, trials, raised, unhandled,
    ruleVars, compareVars>>

tutorialVars ==
  <<nb, line, phase, error, tjob, endpoint, handle, iter, served, params>>

\* the state of the functions that are checked on their own
functionVars ==
  <<tname, keys, digits, height>>

Steps ==
  0..(MaxSteps - 1)

Status(primary, secondary) ==
  [TrainingJobStatus |-> primary, SecondaryStatus |-> secondary]

NotStarted ==
  Status("-", "-")

\* a rule instance: its class, its base_trial and the cell that created it
RuleInstance(kind, trial, id) ==
  [kind |-> kind, trial |-> trial, id |-> id]

NoRule ==
  RuleInstance("-", 0, 0)

NoCounts ==
  [k \in TensorNames \X Steps |-> 0]

NoNotifications ==
  [s \in Steps |-> 0]

JobNames ==
  {"training", "compilation"}

\* the endpoints the tutorial notebooks can create: the K-Means notebook's
\* sparksm-1a-, sparksm-1b-, sparksm-1c-, the two of the Neo notebook, and
\* the name a model without a name policy would give
EndpointNames ==
  {"sparksm-1a", "sparksm-1b", "sparksm-1c", "tensorflow", "neo", "endpoint"}

NoJobs ==
  [j \in JobNames |-> "-"]

NoEndpoints ==
  [e \in EndpointNames |-> "-"]

\* the kernel runs the debugger notebook: no tutorial notebook is open
\* no name is being filtered
NoFilter ==
  /\ tname = << >>
  /\ keys = {}

\* displayClusters is not running
NoDisplay ==
  /\ digits = 0
  /\ height = {}

NoTutorial ==
  /\ nb = "debugger"
  /\ line = 0
  /\ phase = "idle"
  /\ error = "-"
  /\ tjob = NoJobs
  /\ endpoint = NoEndpoints
  /\ handle = EmptyDict
  /\ iter = 0
  /\ served = "-"
  /\ params = EmptyDict

Init ==
  /\ cell = 1
  /\ pc = "start"
  /\ job = [t \in Trials |-> NotStarted]
  /\ written = [t \in Trials |-> 0]
  /\ description = NotStarted
  /\ trials = {}
  /\ rule = NoRule
  /\ tensors = EmptyDict
  /\ step = 0
  /\ todo = {}
  /\ failed = {}
  /\ errors = {}
  /\ raised = "-"
  /\ unhandled = "-"
  /\ aggCount = NoCounts
  /\ notified = NoNotifications
  /\ result = "-"
  /\ captured = EmptyDict
  /\ heap = EmptyDict
  /\ NoTutorial
  /\ NoFilter
  /\ NoDisplay

Running ==
  /\ cell <= Len(Program)
  /\ Program[cell].op # "break"

Current ==
  Program[cell]

At(op, where) ==
  /\ Running
  /\ Current.op = op
  /\ pc = where

\* the cell has run to its end: the notebook moves on to the next cell
NextCell ==
  /\ cell' = cell + 1
  /\ pc' = "start"

(* ------------------- the training job (SageMaker) --------------------- *)
JobEnded(t) ==
  job[t].TrainingJobStatus \in {"Completed", "Failed", "Stopped"}

\* the secondary status that follows in a job that runs to completion
NextSecondary(s) ==
  CASE s = "Starting"    -> "Downloading"
    [] s = "Downloading" -> "Training"
    [] s = "Training"    -> "Uploading"
    [] s = "Uploading"   -> "Completed"

\* estimator.fit(wait=False): the job is submitted and the call returns
Fit ==
  /\ UNCHANGED <<tutorialVars, functionVars>>
  /\ UNCHANGED compareVars
  /\ At("fit", "start")
  /\ job' = [job EXCEPT ![Current.trial] = Status("InProgress", "Starting")]
  /\ NextCell
  /\ UNCHANGED <<written, description, trials, raised, unhandled>>
  /\ UNCHANGED ruleVars

JobAdvance(t) ==
  /\ UNCHANGED <<tutorialVars, functionVars>>
  /\ UNCHANGED compareVars
  /\ job[t].TrainingJobStatus = "InProgress"
  /\ LET s == NextSecondary(job[t].SecondaryStatus)
     IN job' = [job EXCEPT ![t] =
                  Status(IF s = "Completed" THEN "Completed" ELSE "InProgress", s)]
  /\ UNCHANGED <<cell, pc, written, description, trials, raised, unhandled>>
  /\ UNCHANGED ruleVars

\* the debugger hook saves the tensors of one more step
JobSaveStep(t) ==
  /\ UNCHANGED <<tutorialVars, functionVars>>
  /\ UNCHANGED compareVars
  /\ job[t] = Status("InProgress", "Training")
  /\ written[t] < MaxSteps
  /\ written' = [written EXCEPT ![t] = @ + 1]
  /\ UNCHANGED <<cell, pc, job, description, trials, raised, unhandled>>
  /\ UNCHANGED ruleVars

JobFail(t) ==
  /\ UNCHANGED <<tutorialVars, functionVars>>
  /\ UNCHANGED compareVars
  /\ job[t].TrainingJobStatus = "InProgress"
  /\ job' = [job EXCEPT ![t] = Status("Failed", "Failed")]
  /\ UNCHANGED <<cell, pc, written, description, trials, raised, unhandled>>
  /\ UNCHANGED ruleVars

JobStop(t) ==
  /\ UNCHANGED <<tutorialVars, functionVars>>
  /\ UNCHANGED compareVars
  /\ job[t].TrainingJobStatus = "InProgress"
  /\ job' = [job EXCEPT ![t] = Status("Stopping", "Stopping")]
  /\ UNCHANGED <<cell, pc, written, description, trials, raised, unhandled>>
  /\ UNCHANGED ruleVars

JobStopped(t) ==
  /\ UNCHANGED <<tutorialVars, functionVars>>
  /\ UNCHANGED compareVars
  /\ job[t].TrainingJobStatus = "Stopping"
  /\ job' = [job EXCEPT ![t] = Status("Stopped", "Stopped")]
  /\ UNCHANGED <<cell, pc, written, description, trials, raised, unhandled>>
  /\ UNCHANGED ruleVars

(* ------------------------ the status polling cells -------------------- *)
\* description = client.describe_training_job(TrainingJobName=job_name)
Describe ==
  /\ UNCHANGED <<tutorialVars, functionVars>>
  /\ UNCHANGED compareVars
  /\ At("describe", "start")
  /\ description' = job[Current.trial]
  /\ NextCell
  /\ UNCHANGED <<job, written, trials, raised, unhandled>>
  /\ UNCHANGED ruleVars

\* if description["TrainingJobStatus"] != "Completed":
PollEnter(d) ==
  d.TrainingJobStatus # "Completed"

\* mutant: the loop also ends on the status Downloading
PollAgainUntilDownloading(d) ==
  d.SecondaryStatus \notin {"Downloading", "Training", "Completed"}

\* while description["SecondaryStatus"] not in {"Training", "Completed"}:
PollAgain(d) ==
  d.SecondaryStatus \notin {"Training", "Completed"}

PollIf ==
  /\ UNCHANGED <<tutorialVars, functionVars>>
  /\ UNCHANGED compareVars
  /\ At("poll", "start")
  /\ IF PollEnter(description)
     THEN /\ pc' = "while"
          /\ cell' = cell
     ELSE NextCell
  /\ UNCHANGED <<job, written, description, trials, raised, unhandled>>
  /\ UNCHANGED ruleVars

PollWhile ==
  /\ UNCHANGED <<tutorialVars, functionVars>>
  /\ UNCHANGED compareVars
  /\ At("poll", "while")
  /\ IF PollAgain(description)
     THEN /\ pc' = "body"
          /\ cell' = cell
     ELSE NextCell
  /\ UNCHANGED <<job, written, description, trials, raised, unhandled>>
  /\ UNCHANGED ruleVars

\* the loop body: describe_training_job, print, time.sleep(15)
PollBody ==
  /\ UNCHANGED <<tutorialVars, functionVars>>
  /\ UNCHANGED compareVars
  /\ At("poll", "body")
  /\ description' = job[Current.trial]
  /\ pc' = "while"
  /\ UNCHANGED <<cell, job, written, trials, raised, unhandled>>
  /\ UNCHANGED ruleVars

\* trial1 = create_trial(path) / trial2 = create_trial(path)
CreateTrial ==
  /\ UNCHANGED <<tutorialVars, functionVars>>
  /\ UNCHANGED compareVars
  /\ At("create_trial", "start")
  /\ trials' = trials \cup {Current.trial}
  /\ NextCell
  /\ UNCHANGED <<job, written, description, raised, unhandled>>
  /\ UNCHANGED ruleVars


(* --------------------------- the rule cells --------------------------- *)
\* rule = <Kind>(trial): the constructor leaves rule.tensors empty
\* the references held by dict_gradients / dict_activation_inputs
References ==
  {captured[l] : l \in DOMAIN captured}

\* the mapping a reference <<mapping object, name>> leads to
Deref(ref) ==
  IF ref[1] = rule.id THEN tensors[StrKey(ref[2])] ELSE heap[ref]

\* `rule` is bound to another object: of the mappings of the instance it
\* leaves, those a reference still leads to stay alive, as they are
Retired ==
  LET kept == {r \in References : r[1] = rule.id}
  IN [r \in (DOMAIN heap) \cup kept |->
        IF r \in kept THEN tensors[StrKey(r[2])] ELSE heap[r]]

\* mutant: tensors is a class attribute, one object for all the instances
SharedTensors(c, old) ==
  old

\* self.tensors = collections.OrderedDict() in __init__: the object the
\* instance created by cell c gets is a new one (old: the one `rule` had)
NewTensors(c, old) ==
  c

RunRule ==
  /\ UNCHANGED <<tutorialVars, functionVars>>
  /\ At("rule", "start")
  /\ Current.trial \in trials
  /\ LET id == NewTensors(cell, rule.id)
     IN /\ rule' = RuleInstance(Current.kind, Current.trial, id)
        /\ IF id = rule.id
           THEN /\ tensors' = tensors
                /\ heap' = heap
           ELSE /\ tensors' = EmptyDict
                /\ heap' = Retired
  /\ captured' = captured
  /\ step' = 0
  /\ todo' = {}
  /\ failed' = {}
  /\ errors' = {}
  /\ aggCount' = NoCounts
  /\ notified' = NoNotifications
  /\ result' = "-"
  /\ pc' = "invoke_rule"
  /\ UNCHANGED <<cell, job, written, description, trials, raised, unhandled>>

\* invoke_at_step(s) is entered: the for loop starts over the names that
\* base_trial.tensor_names(regex=...) returns
EnterInvokeAtStep(s) ==
  /\ step' = s
  /\ todo' = RegexNames(rule.kind)
  /\ failed' = {}
  /\ notified' = [notified EXCEPT ![s] = @ + 1]
  /\ result' = "-"
  /\ pc' = "at_step"
  /\ UNCHANGED <<rule, tensors, errors, aggCount>>

\* invoke_rule(rule): the next step is available, the rule is invoked on it
InvokeStep ==
  /\ UNCHANGED <<tutorialVars, functionVars>>
  /\ UNCHANGED compareVars
  /\ Running
  /\ pc = "invoke_rule"
  /\ step < written[rule.trial]
  /\ EnterInvokeAtStep(step)
  /\ UNCHANGED <<cell, job, written, description, trials, raised, unhandled>>

\* invoke_rule(rule): the job has ended and no further step will come
RaiseNoMoreData ==
  /\ UNCHANGED <<tutorialVars, functionVars>>
  /\ UNCHANGED compareVars
  /\ Running
  /\ pc = "invoke_rule"
  /\ step >= written[rule.trial]
  /\ JobEnded(rule.trial)
  /\ raised' = "NoMoreData"
  /\ pc' = "raised"
  /\ UNCHANGED <<cell, job, written, description, trials, unhandled>>
  /\ UNCHANGED ruleVars

\* one pass of the for loop on a name the `not in tname` test rejects
LoopSkip(n) ==
  /\ UNCHANGED <<tutorialVars, functionVars>>
  /\ UNCHANGED compareVars
  /\ pc = "at_step"
  /\ n \in todo
  /\ ~NotExcluded(rule.kind, n)
  /\ todo' = todo \ {n}
  /\ UNCHANGED <<cell, pc, job, written, description, trials, raised, unhandled>>
  /\ UNCHANGED <<rule, tensors, step, failed, errors, aggCount, notified, result>>

\* mutant: the loop does not move on to the next name
AfterPassSameName(names, n) ==
  names

\* the names still to visit once the pass for n is over
AfterPass(names, n) ==
  names \ {n}

\* one pass of the for loop: the fetch succeeds and the try block completes
LoopFetch(n) ==
  /\ UNCHANGED <<tutorialVars, functionVars>>
  /\ UNCHANGED compareVars
  /\ pc = "at_step"
  /\ n \in todo
  /\ NotExcluded(rule.kind, n)
  /\ tensors' = LoopBody(rule.kind, tensors, n, step,
                         TensorValue(rule.trial, n, step))
  /\ aggCount' = [aggCount EXCEPT ![<<n, step>>] = @ + 1]
  /\ todo' = AfterPass(todo, n)
  /\ UNCHANGED <<cell, pc, job, written, description, trials, raised, unhandled>>
  /\ UNCHANGED <<rule, step, failed, errors, notified, result>>

\* the exceptions value(step) raises when the tensor cannot be fetched
FetchExceptions ==
  {"TensorUnavailableForStep", "TensorUnavailable"}

\* mutant: `except TensorUnavailable:` in place of the bare except
ExceptTensorUnavailable(exc) ==
  exc = "TensorUnavailable"

\* the bare `except:` around the fetch catches every exception
BareExcept(exc) ==
  TRUE

\* the names still to visit after the except clause has logged the failure
\* of the fetch of n: the loop goes on with the next name
AfterFetchError(names, n) ==
  names \ {n}

\* mutant: the entry for the name is prepared before the fetch
BeforeFetchPrepared(d, n, s) ==
  IF StrKey(n) \notin DOMAIN d
  THEN DictSet(d, StrKey(n), EmptyDict) ELSE d

\* the mapping when value(step) raises: the fetch is the first statement of
\* the try block, nothing has been written for this name yet
BeforeFetch(d, n, s) ==
  d

\* one pass of the for loop: value(step) raises exc; the bare except logs
\* "Can not fetch tensor" and the loop goes on
LoopFetchError(n, exc) ==
  /\ UNCHANGED <<tutorialVars, functionVars>>
  /\ UNCHANGED compareVars
  /\ pc = "at_step"
  /\ n \in todo
  /\ NotExcluded(rule.kind, n)
  /\ IF BareExcept(exc)
     THEN /\ failed' = failed \cup {n}
          /\ errors' = errors \cup {<<n, step>>}
          /\ todo' = AfterFetchError(todo, n)
          /\ UNCHANGED <<pc, raised>>
     ELSE /\ raised' = exc
          /\ pc' = "raised"
          /\ UNCHANGED <<failed, errors, todo>>
  /\ UNCHANGED <<cell, job, written, description, trials, unhandled>>
  /\ tensors' = BeforeFetch(tensors, n, step)
  /\ UNCHANGED <<rule, step, aggCount, notified, result>>

\* the exceptions that can end the try block of the activation rules after
\* the fetch, while np.where, the log call or np.sum run: the interrupt of
\* the kernel, or memory running out
ProcessExceptions ==
  {"KeyboardInterrupt", "MemoryError"}

\* one pass of the for loop of ActivationOutputs / ActivationInputs: the
\* fetch succeeds, the entry is created holding 0, and exc is raised before
\* `self.tensors[tname][step] += batch_over_sum`; the bare except logs
\* "Can not fetch tensor" and the loop goes on
LoopProcessError(n, exc) ==
  /\ UNCHANGED <<tutorialVars, functionVars>>
  /\ UNCHANGED compareVars
  /\ pc = "at_step"
  /\ n \in todo
  /\ NotExcluded(rule.kind, n)
  /\ IsActivation(rule.kind)
  /\ tensors' = Placeholder(tensors, n, step)
  /\ IF BareExcept(exc)
     THEN /\ failed' = failed \cup {n}
          /\ errors' = errors \cup {<<n, step>>}
          /\ todo' = AfterFetchError(todo, n)
          /\ UNCHANGED <<pc, raised>>
     ELSE /\ raised' = exc
          /\ pc' = "raised"
          /\ UNCHANGED <<failed, errors, todo>>
  /\ UNCHANGED <<cell, job, written, description, trials, unhandled>>
  /\ UNCHANGED <<rule, step, aggCount, notified, result>>

\* mutant: the rule reports an issue
ReturnValueTrue(kind) ==
  "True"

\* the value the last statement of invoke_at_step returns, in every rule
ReturnValue(kind) ==
  "False"

\* the for loop is over: return False
Return ==
  /\ UNCHANGED <<tutorialVars, functionVars>>
  /\ UNCHANGED compareVars
  /\ pc = "at_step"
  /\ todo = {}
  /\ result' = ReturnValue(rule.kind)
  /\ pc' = "returned"
  /\ UNCHANGED <<cell, job, written, description, trials, raised, unhandled>>
  /\ UNCHANGED <<rule, tensors, step, todo, failed, errors, aggCount, notified>>

\* invoke_rule(rule): the rule reported no issue for the step, step += 1
Advance ==
  /\ UNCHANGED <<tutorialVars, functionVars>>
  /\ UNCHANGED compareVars
  /\ Running
  /\ pc = "returned"
  /\ result = "False"
  /\ step' = step + 1
  /\ pc' = "invoke_rule"
  /\ UNCHANGED <<cell, job, written, description, trials, raised, unhandled>>
  /\ UNCHANGED <<rule, tensors, todo, failed, errors, aggCount, notified, result>>

\* mutant: the cell has no except clause for the end of the stream
CatchesNothing(exc) ==
  FALSE

\* mutant: the cell catches another exception class
CatchesStepUnavailable(exc) ==
  exc = "StepUnavailable"

\* the exceptions the except clause of a rule cell names
Catches(exc) ==
  exc = "NoMoreData"

\* try: invoke_rule(rule) / except NoMoreData: print(...)
Except ==
  /\ UNCHANGED <<tutorialVars, functionVars>>
  /\ UNCHANGED compareVars
  /\ Running
  /\ pc = "raised"
  /\ IF Catches(raised)
     THEN /\ NextCell
          /\ unhandled' = unhandled
     ELSE /\ pc' = "stopped"
          /\ cell' = cell
          /\ unhandled' = raised
  /\ raised' = "-"
  /\ UNCHANGED <<job, written, description, trials>>
  /\ UNCHANGED ruleVars

\* utils.create_interactive_matplotlib_histogram(rule.tensors, ...) and the
\* print loop over rule.tensors: the mapping is read
Plot ==
  /\ UNCHANGED <<tutorialVars, functionVars>>
  /\ UNCHANGED compareVars
  /\ At("plot", "start")
  /\ NextCell
  /\ UNCHANGED <<job, written, description, trials, raised, unhandled>>
  /\ UNCHANGED ruleVars

(* ------------------------ the comparison cells ----------------------- *)
\* the names whose sub-mapping a capture cell reads, in its order
CaptureNames(kind) ==
  IF kind = "GradientsLayer"
  THEN <<"gradient/conv0_weight", "gradient/conv1_weight">>
  ELSE <<"conv0_relu_input_0", "conv1_relu_input_0">>

\* the key under which the sub-mapping of n is kept
Label(n, trial) ==
  <<n, IF trial = 1 THEN "bad_hyperparameters" ELSE "good_hyperparameters">>

\* dict_gradients[label] = rule.tensors[name]: the dictionary gets a
\* reference to the sub-mapping, not a copy
Assign(d, n, trial) ==
  DictSet(d, Label(n, trial), <<rule.id, n>>)

\* the cell after a rule: [dict = {}] and two assignments; rule.tensors[n]
\* raises KeyError when the rule recorded nothing for n
Capture ==
  /\ UNCHANGED <<tutorialVars, functionVars>>
  /\ At("capture", "start")
  /\ LET names == CaptureNames(Current.kind)
         d0 == IF Current.trial = 1 THEN EmptyDict ELSE captured
         d1 == Assign(d0, names[1], Current.trial)
         d2 == Assign(d1, names[2], Current.trial)
     IN IF StrKey(names[1]) \notin DOMAIN tensors
        THEN /\ captured' = d0
             /\ unhandled' = "KeyError"
             /\ pc' = "stopped"
             /\ cell' = cell
        ELSE IF StrKey(names[2]) \notin DOMAIN tensors
             THEN /\ captured' = d1
                  /\ unhandled' = "KeyError"
                  /\ pc' = "stopped"
                  /\ cell' = cell
             ELSE /\ captured' = d2
                  /\ unhandled' = unhandled
                  /\ NextCell
  /\ UNCHANGED <<job, written, description, trials, raised, heap>>
  /\ UNCHANGED ruleVars

(* ------------------------- the whole notebook ------------------------- *)
Next ==
  \/ Fit
  \/ \E t \in Trials : JobAdvance(t)
  \/ \E t \in Trials : JobSaveStep(t)
  \/ \E t \in Trials : JobFail(t)
  \/ \E t \in Trials : JobStop(t)
  \/ \E t \in Trials : JobStopped(t)
  \/ Describe
  \/ PollIf
  \/ PollWhile
  \/ PollBody
  \/ CreateTrial
  \/ RunRule
  \/ InvokeStep
  \/ RaiseNoMoreData
  \/ \E n \in TensorNames : LoopSkip(n)
  \/ \E n \in TensorNames : LoopFetch(n)
  \/ \E n \in TensorNames, exc \in FetchExceptions : LoopFetchError(n, exc)
  \/ Return
  \/ Advance
  \/ Except
  \/ Plot

Spec ==
  Init /\ [][Next]_vars

(* ------------------ the notebook under fair scheduling ---------------- *)
\* the for loop of invoke_at_step goes on to its next pass, whichever way
\* the pass ends (name rejected, tensor fetched, fetch failed)
LoopPass ==
  /\ pc = "at_step"
  /\ \E n \in todo : todo' = todo \ {n}
  /\ UNCHANGED <<cell, pc, step>>

\* where the kernel is: the cell, the statement, the step and the loop
control ==
  <<cell, pc, step, todo>>

\* a step of the kernel: it runs the cells one after the other and, inside
\* a cell, one statement after the other, without ever pausing for good
NotebookStep ==
  \/ Fit
  \/ Describe
  \/ PollIf
  \/ PollWhile
  \/ PollBody
  \/ CreateTrial
  \/ RunRule
  \/ InvokeStep
  \/ RaiseNoMoreData
  \/ LoopPass
  \/ Return
  \/ Advance
  \/ Except
  \/ Plot

\* a step of the service that takes job t nearer to its end
JobProgress(t) ==
  \/ JobAdvance(t)
  \/ JobStopped(t)

\* the kernel keeps running the notebook and SageMaker keeps running the
\* jobs: every job that was started ends, after finitely many saved steps
SpecFair ==
  /\ Init
  /\ [][Next]_vars
  /\ WF_control(NotebookStep)
  /\ \A t \in Trials : WF_vars(JobProgress(t))

(* ----------------- the comparison of the two trials ------------------- *)
\* the first cell of each comparison section
CompareStarts ==
  {c \in 2..Len(Program) :
     Program[c - 1].op = "break" /\ Program[c].op = "rule"}

\* both jobs have completed, both trials exist, a comparison section starts
InitCompare ==
  /\ cell \in CompareStarts
  /\ pc = "start"
  /\ job = [t \in Trials |-> Status("Completed", "Completed")]
  /\ written = [t \in Trials |-> MaxSteps]
  /\ description = Status("Completed", "Completed")
  /\ trials = Trials
  /\ rule = NoRule
  /\ tensors = EmptyDict
  /\ step = 0
  /\ todo = {}
  /\ failed = {}
  /\ errors = {}
  /\ raised = "-"
  /\ unhandled = "-"
  /\ aggCount = NoCounts
  /\ notified = NoNotifications
  /\ result = "-"
  /\ captured = EmptyDict
  /\ heap = EmptyDict
  /\ NoTutorial
  /\ NoFilter
  /\ NoDisplay

\* (no name that matches ".*gradient" or ".*relu_input" is turned down by
\* the `not in tname` test of GradientsLayer or ActivationInputs)
NextCompare ==
  \/ RunRule
  \/ InvokeStep
  \/ RaiseNoMoreData
  \/ \E n \in TensorNames : LoopFetch(n)
  \/ \E n \in TensorNames, exc \in FetchExceptions : LoopFetchError(n, exc)
  \/ Return
  \/ Advance
  \/ Except
  \/ Capture
  \/ Plot

SpecCompare ==
  InitCompare /\ [][NextCompare]_vars

(* ------------ a rule instance under arbitrary notifications ----------- *)
\* a fresh instance of any rule on the trial of a finished job
InitNotify ==
  /\ cell = 0
  /\ pc = "idle"
  /\ job = [t \in Trials |-> IF t = 1 THEN Status("Completed", "Completed")
                                      ELSE NotStarted]
  /\ written = [t \in Trials |-> IF t = 1 THEN MaxSteps ELSE 0]
  /\ description = Status("Completed", "Completed")
  /\ trials = {1}
  /\ rule \in {RuleInstance(k, 1, 0) : k \in RuleKinds}
  /\ tensors = EmptyDict
  /\ step = 0
  /\ todo = {}
  /\ failed = {}
  /\ errors = {}
  /\ raised = "-"
  /\ unhandled = "-"
  /\ aggCount = NoCounts
  /\ notified = NoNotifications
  /\ result = "-"
  /\ captured = EmptyDict
  /\ heap = EmptyDict
  /\ NoTutorial
  /\ NoFilter
  /\ NoDisplay

Notifications ==
  SumSeq([i \in 1..MaxSteps |-> notified[i - 1]])

\* a caller invokes rule.invoke_at_step(s) for any saved step, in any order
Notify(s) ==
  /\ UNCHANGED <<tutorialVars, functionVars>>
  /\ UNCHANGED compareVars
  /\ cell = 0
  /\ pc \in {"idle", "returned"}
  /\ Notifications < MaxNotify
  /\ EnterInvokeAtStep(s)
  /\ UNCHANGED <<cell, job, written, description, trials, raised, unhandled>>

NextNotify ==
  \/ \E s \in Steps : Notify(s)
  \/ \E n \in TensorNames : LoopSkip(n)
  \/ \E n \in TensorNames : LoopFetch(n)
  \/ \E n \in TensorNames, exc \in FetchExceptions : LoopFetchError(n, exc)
  \/ Return

SpecNotify ==
  InitNotify /\ [][NextNotify]_vars


(* ---------- a rule instance whose try block can be cut short --------- *)
\* Spec and SpecNotify take the statements that follow a successful fetch to
\* run to the end of the try block; here an exception may end them early
NextInterrupt ==
  \/ NextNotify
  \/ \E n \in TensorNames, exc \in ProcessExceptions : LoopProcessError(n, exc)

SpecInterrupt ==
  InitNotify /\ [][NextInterrupt]_vars

(* ------------- the name filter of a rule, on any tensor name ---------- *)
\* tensor names a trial can hold: a layer's ReLU output, ReLU input or
\* weight, as such or as the tensor of a gradient, which this trial names
\* "gradient/..." and the excluded substring of the rules "gradients"
CandidateNames ==
  LET prefixes == { << >>,
                    <<"g","r","a","d","i","e","n","t","/">>,
                    <<"g","r","a","d","i","e","n","t","s","/">> }
      layers   == { <<"c","o","n","v","0">>, <<"c","o","n","v","1">> }
      suffixes == { <<"_","r","e","l","u","_","o","u","t","p","u","t","_","0">>,
                    <<"_","r","e","l","u","_","i","n","p","u","t","_","0">>,
                    <<"_","w","e","i","g","h","t">> }
  IN {p \o l \o x : p \in prefixes, l \in layers, x \in suffixes}

\* `for tname in self.base_trial.tensor_names(regex=...)` followed by the
\* `not in tname` test: the fetch and the assignment are reached for text
Selects(kind, text) ==
  /\ RegexMatch(RuleRegex(kind), text)
  /\ RuleExclude(kind) = << >> \/ ~Contains(text, RuleExclude(kind))

\* the pass of the for loop for tname, the fetch succeeding: tname becomes a
\* key of self.tensors when the filter lets it through
SelectName ==
  /\ pc = "idle"
  /\ tname # << >>
  /\ pc' = "returned"
  /\ keys' = IF Selects(rule.kind, tname) THEN {tname} ELSE {}
  /\ UNCHANGED <<cell, job, written, description, trials, raised, unhandled>>
  /\ UNCHANGED <<ruleVars, compareVars, tutorialVars, tname, digits, height>>

\* a fresh instance of any rule and any candidate name
InitFilter ==
  /\ cell = 0
  /\ pc = "idle"
  /\ job = [t \in Trials |-> IF t = 1 THEN Status("Completed", "Completed")
                                      ELSE NotStarted]
  /\ written = [t \in Trials |-> IF t = 1 THEN MaxSteps ELSE 0]
  /\ description = Status("Completed", "Completed")
  /\ trials = {1}
  /\ rule \in {RuleInstance(k, 1, 0) : k \in RuleKinds}
  /\ tensors = EmptyDict
  /\ step = 0
  /\ todo = {}
  /\ failed = {}
  /\ errors = {}
  /\ raised = "-"
  /\ unhandled = "-"
  /\ aggCount = NoCounts
  /\ notified = NoNotifications
  /\ result = "-"
  /\ captured = EmptyDict
  /\ heap = EmptyDict
  /\ NoTutorial
  /\ NoDisplay
  /\ tname \in CandidateNames
  /\ keys = {}

SpecFilter ==
  InitFilter /\ [][SelectName]_vars

(* ======================= the tutorial notebooks ======================= *)
\* K-Means with SageMaker Spark, MXNet on Managed Spot, TensorFlow with Neo,
\* DGL knowledge graph embedding: each is run top to bottom by the kernel.
Notebooks ==
  {"kmeans", "spot", "neo", "kge"}

\* a statement: what it does and the notebook variable it is about
St(op, var) ==
  [op |-> op, var |-> var]

KMeansCells ==
  << St("setup", "spark"), St("data", "trainingData"),
     St("estimator", "kmeans_estimator"), St("fit", "kmeans_estimator"),
     St("assign", "initialModelEndpointName"),
     St("transform", "initialModel"), St("display", "initialModel"),
     St("assign", "ENDPOINT_NAME"),
     St("construct", "attachedModel"), St("transform", "attachedModel"),
     St("assign", "MODEL_S3_PATH"),
     St("construct", "retrievedModel"), St("transform", "retrievedModel"),
     St("job_name", "TRAINING_JOB_NAME"),
     St("construct", "modelFromJob"), St("transform", "modelFromJob"),
     St("cleanup", "models") >>

SpotCells ==
  << St("setup", "role"), St("spot_config", "train_use_spot_instances"),
     St("estimator", "mnist_estimator"), St("fit", "mnist_estimator") >>

\* mutant: the first endpoint is deleted before it is used
NeoCellsDeleteFirst ==
  << St("setup", "role"), St("data", "data_sets"), St("data", "inputs"),
     St("estimator", "mnist_estimator"), St("fit", "mnist_estimator"),
     St("deploy", "mnist_predictor"), St("delete", "mnist_predictor"),
     St("predict", "mnist_predictor"),
     St("compile", "optimized_estimator"),
     St("deploy", "optimized_predictor"),
     St("assign", "optimized_predictor.serializer"),
     St("predict", "optimized_predictor"),
     St("delete", "optimized_predictor") >>

NeoCells ==
  << St("setup", "role"), St("data", "data_sets"), St("data", "inputs"),
     St("estimator", "mnist_estimator"), St("fit", "mnist_estimator"),
     St("deploy", "mnist_predictor"), St("predict", "mnist_predictor"),
     St("delete", "mnist_predictor"),
     St("compile", "optimized_estimator"),
     St("deploy", "optimized_predictor"),
     St("assign", "optimized_predictor.serializer"),
     St("predict", "optimized_predictor"),
     St("delete", "optimized_predictor") >>

KgeCells ==
  << St("setup", "role"), St("estimator", "estimator"),
     St("fit", "estimator") >>

Cells(n) ==
  CASE n = "kmeans" -> KMeansCells
    [] n = "spot"   -> SpotCells
    [] n = "neo"    -> NeoCells
    [] n = "kge"    -> KgeCells

\* the last cell has not been run and no exception has stopped the kernel
Active ==
  /\ nb \in Notebooks
  /\ line <= Len(Cells(nb))
  /\ phase # "stopped"

Here ==
  Cells(nb)[line]

Doing(op, where) ==
  /\ Active
  /\ Here.op = op
  /\ phase = where

NextLine ==
  /\ line' = line + 1
  /\ phase' = "start"

\* the statement raises: the kernel stops, the cells below are not run
Raise(exc) ==
  /\ error' = exc
  /\ phase' = "stopped"
  /\ line' = line

\* the notebook has run to the end of its last cell
Finished ==
  /\ nb \in Notebooks
  /\ line = Len(Cells(nb)) + 1

(* ------------------------- plain statements --------------------------- *)
\* imports, sessions, roles, data loading, plain assignments: nothing of
\* SageMaker's training jobs or endpoints changes
Local ==
  /\ Active
  /\ Here.op \in {"setup", "data", "assign"}
  /\ phase = "start"
  /\ NextLine
  /\ UNCHANGED <<nb, error, tjob, endpoint, handle, iter, served, params>>
  /\ UNCHANGED <<debuggerVars, functionVars>>

\* an optional integer: None is the empty set, the value v is {v}
None ==
  {}

Some(v) ==
  {v}

TrainMaxRun ==
  3600

\* mutant: train_max_wait is set whether or not Spot is used
TrainMaxWaitAlways(spot) ==
  Some(7200)

\* train_max_wait = 7200 if train_use_spot_instances else None
TrainMaxWait(spot) ==
  IF spot THEN Some(7200) ELSE None

\* the Spot configuration cell; train_use_spot_instances is the flag the
\* reader of the notebook is invited to toggle
SpotConfig ==
  /\ Doing("spot_config", "start")
  /\ \E spot \in BOOLEAN :
       params' = [train_use_spot_instances |-> spot,
                  train_max_run |-> TrainMaxRun,
                  train_max_wait |-> TrainMaxWait(spot)]
  /\ NextLine
  /\ UNCHANGED <<nb, error, tjob, endpoint, handle, iter, served>>
  /\ UNCHANGED <<debuggerVars, functionVars>>

\* the keyword arguments the estimator is constructed with
EstimatorArgs ==
  IF nb = "spot"
  THEN [use_spot_instances |-> params.train_use_spot_instances,
        max_run |-> Some(params.train_max_run),
        max_wait |-> params.train_max_wait]
  ELSE [use_spot_instances |-> FALSE, max_run |-> None, max_wait |-> None]

\* mnist_estimator = MXNet(...), TensorFlow(...), KMeansSageMakerEstimator(...)
Estimator ==
  /\ Doing("estimator", "start")
  /\ handle' = DictSet(handle, Here.var, EstimatorArgs)
  /\ NextLine
  /\ UNCHANGED <<nb, error, tjob, endpoint, iter, served, params>>
  /\ UNCHANGED <<debuggerVars, functionVars>>

\* the names TRAINING_JOB_NAME can be given: the placeholder the notebook
\* ships with, or the name of the training job of the initial fit
JobNameInputs ==
  {"<YOUR_TRAINING_JOB_NAME>", "sparksm-1a-job"}

\* TRAINING_JOB_NAME = "<YOUR_TRAINING_JOB_NAME>" (a parameters cell)
JobName ==
  /\ Doing("job_name", "start")
  /\ \E name \in JobNameInputs :
       params' = [TRAINING_JOB_NAME |-> name]
  /\ NextLine
  /\ UNCHANGED <<nb, error, tjob, endpoint, handle, iter, served>>
  /\ UNCHANGED <<debuggerVars, functionVars>>

(* ------------------- training and compilation jobs -------------------- *)
JobOf(op) ==
  IF op = "compile" THEN "compilation" ELSE "training"

\* what CreateTrainingJob accepts: a maximum wait time is given exactly
\* when Spot training is asked for, and it is not below the maximum run time
ValidStoppingCondition(args) ==
  /\ (args.max_wait # None) <=> args.use_spot_instances
  /\ \A w \in args.max_wait, r \in args.max_run : w >= r

\* mutant: the call returns as soon as the job is created (wait=False)
NoWait(op) ==
  FALSE

\* estimator.fit(inputs) and compile_model(...) wait for the job they start
Waits(op) ==
  TRUE

\* estimator.fit(...) / mnist_estimator.compile_model(...): the job is created
CallJob ==
  /\ Active
  /\ Here.op \in {"fit", "compile"}
  /\ phase = "start"
  /\ IF Here.op = "fit" /\ ~ValidStoppingCondition(handle[Here.var])
     THEN /\ Raise("ValidationException")
          /\ tjob' = tjob
     ELSE IF Here.op = "compile" /\ tjob["training"] # "Completed"
          THEN /\ Raise("ValueError")
               /\ tjob' = tjob
          ELSE /\ tjob' = [tjob EXCEPT ![JobOf(Here.op)] = "InProgress"]
               /\ error' = error
               /\ IF Waits(Here.op)
                  THEN /\ phase' = "waiting"
                       /\ line' = line
                  ELSE NextLine
  /\ UNCHANGED <<nb, endpoint, handle, iter, served, params>>
  /\ UNCHANGED <<debuggerVars, functionVars>>

TrainingCompletes(j) ==
  /\ nb \in Notebooks
  /\ tjob[j] = "InProgress"
  /\ tjob' = [tjob EXCEPT ![j] = "Completed"]
  /\ UNCHANGED <<nb, line, phase, error, endpoint, handle, iter, served, params>>
  /\ UNCHANGED <<debuggerVars, functionVars>>

TrainingFails(j) ==
  /\ nb \in Notebooks
  /\ tjob[j] = "InProgress"
  /\ tjob' = [tjob EXCEPT ![j] = "Failed"]
  /\ UNCHANGED <<nb, line, phase, error, endpoint, handle, iter, served, params>>
  /\ UNCHANGED <<debuggerVars, functionVars>>

\* the job runs on Spot instances
OnSpot ==
  /\ nb = "spot"
  /\ "mnist_estimator" \in DOMAIN handle
  /\ handle["mnist_estimator"].use_spot_instances

\* the Spot instances are taken back: the job waits for capacity
SpotInterruption ==
  /\ OnSpot
  /\ tjob["training"] = "InProgress"
  /\ tjob' = [tjob EXCEPT !["training"] = "Interrupted"]
  /\ UNCHANGED <<nb, line, phase, error, endpoint, handle, iter, served, params>>
  /\ UNCHANGED <<debuggerVars, functionVars>>

\* capacity is back: the job resumes from its last checkpoint
SpotResumption ==
  /\ OnSpot
  /\ tjob["training"] = "Interrupted"
  /\ tjob' = [tjob EXCEPT !["training"] = "InProgress"]
  /\ UNCHANGED <<nb, line, phase, error, endpoint, handle, iter, served, params>>
  /\ UNCHANGED <<debuggerVars, functionVars>>

\* max_run (while training) or max_wait (while waiting for capacity) is
\* over: SageMaker stops the job
StoppingConditionMet ==
  /\ nb = "spot"
  /\ \/ tjob["training"] = "InProgress"
     \/ tjob["training"] = "Interrupted"
  /\ tjob' = [tjob EXCEPT !["training"] = "Stopped"]
  /\ UNCHANGED <<nb, line, phase, error, endpoint, handle, iter, served, params>>
  /\ UNCHANGED <<debuggerVars, functionVars>>

\* the waiting call returns when the job has ended; a failed job makes it
\* raise; the K-Means estimator goes on to host the model it has trained
ReturnJob ==
  /\ Active
  /\ Here.op \in {"fit", "compile"}
  /\ phase = "waiting"
  /\ tjob[JobOf(Here.op)] \in {"Completed", "Stopped", "Failed"}
  /\ IF tjob[JobOf(Here.op)] = "Failed"
     THEN Raise("UnexpectedStatusException")
     ELSE /\ error' = error
          /\ IF nb = "kmeans"
             THEN /\ phase' = "hosting"
                  /\ line' = line
             ELSE NextLine
  /\ UNCHANGED <<nb, tjob, endpoint, handle, iter, served, params>>
  /\ UNCHANGED <<debuggerVars, functionVars>>

(* ----------------------------- endpoints ------------------------------ *)
\* a SageMakerModel / predictor object: the endpoint it sends requests to,
\* its endpoint creation policy, the endpoints it has created itself
Model(e, policy, created) ==
  [endpointName |-> e, policy |-> policy, created |-> created]

\* the variable that gets the object a statement hosts a model for
DeployVar ==
  IF Here.op = "fit" THEN "initialModel" ELSE Here.var

\* the name the name policy / the SDK gives the endpoint created for var
EndpointOf(var) ==
  CASE var = "initialModel"       -> "sparksm-1a"
    [] var = "retrievedModel"     -> "sparksm-1b"
    [] var = "modelFromJob"       -> "sparksm-1c"
    [] var = "mnist_predictor"    -> "tensorflow"
    [] var = "optimized_predictor" -> "neo"
    [] OTHER                      -> "endpoint"

\* mutant: every SageMakerModel creates its endpoint on transform
ModelPolicyCreate(var) ==
  "CREATE_ON_TRANSFORM"

\* the endpointCreationPolicy of each object
ModelPolicy(var) ==
  CASE var = "initialModel"   -> "CREATE_ON_CONSTRUCT"
    [] var = "attachedModel"  -> "DO_NOT_CREATE"
    [] var = "retrievedModel" -> "CREATE_ON_TRANSFORM"
    [] var = "modelFromJob"   -> "CREATE_ON_TRANSFORM"
    [] OTHER                  -> "CREATE_ON_CONSTRUCT"

\* the job whose output the endpoint of var serves
Requires(var) ==
  IF var = "optimized_predictor" THEN "compilation" ELSE "training"

\* transform() has to create the endpoint first
NeedsEndpoint(var) ==
  /\ handle[var].policy = "CREATE_ON_TRANSFORM"
  /\ handle[var].created = {}

\* deploy(...), the hosting step of the K-Means fit, the first transform of a
\* CREATE_ON_TRANSFORM model: model, endpoint configuration and endpoint are
\* created
CallDeploy ==
  /\ \/ Doing("deploy", "start")
     \/ Doing("fit", "hosting")
     \/ Doing("transform", "start") /\ NeedsEndpoint(Here.var)
  /\ IF tjob[Requires(DeployVar)] # "Completed"
     THEN /\ Raise("ClientError")
          /\ UNCHANGED <<endpoint, handle>>
     ELSE /\ endpoint' = [endpoint EXCEPT ![EndpointOf(DeployVar)] = "Creating"]
          /\ handle' = DictSet(handle, DeployVar,
                               Model(EndpointOf(DeployVar), ModelPolicy(DeployVar),
                                     {EndpointOf(DeployVar)}))
          /\ phase' = "deploying"
          /\ UNCHANGED <<line, error>>
  /\ UNCHANGED <<nb, tjob, iter, served, params>>
  /\ UNCHANGED <<debuggerVars, functionVars>>

EndpointInService(e) ==
  /\ nb \in Notebooks
  /\ endpoint[e] = "Creating"
  /\ endpoint' = [endpoint EXCEPT ![e] = "InService"]
  /\ UNCHANGED <<nb, line, phase, error, tjob, handle, iter, served, params>>
  /\ UNCHANGED <<debuggerVars, functionVars>>

EndpointCreationFails(e) ==
  /\ nb \in Notebooks
  /\ endpoint[e] = "Creating"
  /\ endpoint' = [endpoint EXCEPT ![e] = "Failed"]
  /\ UNCHANGED <<nb, line, phase, error, tjob, handle, iter, served, params>>
  /\ UNCHANGED <<debuggerVars, functionVars>>

\* the call that created the endpoint returns once it is in service
ReturnDeploy ==
  /\ Active
  /\ phase = "deploying"
  /\ endpoint[handle[DeployVar].endpointName] \in {"InService", "Failed"}
  /\ IF endpoint[handle[DeployVar].endpointName] = "Failed"
     THEN Raise("UnexpectedStatusException")
     ELSE /\ error' = error
          /\ IF Here.op = "transform"
             THEN /\ phase' = "invoke"
                  /\ line' = line
             ELSE NextLine
  /\ UNCHANGED <<nb, tjob, endpoint, handle, iter, served, params>>
  /\ UNCHANGED <<debuggerVars, functionVars>>

\* the training jobs a SageMakerModel can be built from
ExistingJobs ==
  IF tjob["training"] = "Completed" THEN {"sparksm-1a-job"} ELSE {}

\* existingEndpointName=ENDPOINT_NAME for attachedModel, none for the others
ExistingEndpoint(var) ==
  IF var = "attachedModel" THEN handle["initialModel"].endpointName ELSE "-"

\* attachedModel = SageMakerModel(existingEndpointName=...), retrievedModel =
\* SageMakerModel(modelPath=...), modelFromJob = SageMakerModel.fromTrainingJob
\* (...): an object is built, nothing is created in SageMaker; fromTrainingJob
\* looks the training job up and raises when there is none of that name
Construct ==
  /\ Doing("construct", "start")
  /\ IF Here.var = "modelFromJob" /\ params.TRAINING_JOB_NAME \notin ExistingJobs
     THEN /\ Raise("ResourceNotFound")
          /\ handle' = handle
     ELSE /\ handle' = DictSet(handle, Here.var,
                               Model(ExistingEndpoint(Here.var),
                                     ModelPolicy(Here.var), {}))
          /\ NextLine
          /\ error' = error
  /\ UNCHANGED <<nb, tjob, endpoint, iter, served, params>>
  /\ UNCHANGED <<debuggerVars, functionVars>>

\* model.transform(testData).show() and displayClusters(transformedData): the
\* rows are sent to the endpoint of the model; the request raises when the
\* endpoint does not answer
Transform ==
  /\ \/ Doing("transform", "invoke")
     \/ Doing("transform", "start") /\ ~NeedsEndpoint(Here.var)
     \/ Doing("display", "start")
  /\ \/ /\ endpoint[handle[Here.var].endpointName] = "InService"
        /\ served' = handle[Here.var].endpointName
        /\ NextLine
        /\ error' = error
     \/ /\ Raise("ModelError")
        /\ served' = served
  /\ UNCHANGED <<nb, tjob, endpoint, handle, iter, params>>
  /\ UNCHANGED <<debuggerVars, functionVars>>

PredictRequests ==
  10

\* for i in range(10): ... predictor.predict(...)
Predict ==
  /\ Doing("predict", "start")
  /\ IF iter < PredictRequests
     THEN \/ /\ endpoint[handle[Here.var].endpointName] = "InService"
             /\ served' = handle[Here.var].endpointName
             /\ iter' = iter + 1
             /\ UNCHANGED <<line, phase, error>>
          \/ /\ Raise("ModelError")
             /\ UNCHANGED <<served, iter>>
     ELSE /\ NextLine
          /\ iter' = 0
          /\ UNCHANGED <<served, error>>
  /\ UNCHANGED <<nb, tjob, endpoint, handle, params>>
  /\ UNCHANGED <<debuggerVars, functionVars>>

\* predictor.delete_endpoint()
DeleteEndpoint ==
  /\ Doing("delete", "start")
  /\ endpoint' = [endpoint EXCEPT ![handle[Here.var].endpointName] = "Deleted"]
  /\ NextLine
  /\ UNCHANGED <<nb, error, tjob, handle, iter, served, params>>
  /\ UNCHANGED <<debuggerVars, functionVars>>

\* mutant: only the model of the initial fit is cleaned up
CleanupModelsInitial ==
  <<"initialModel">>

\* models = [initialModel, retrievedModel, modelFromJob]
CleanupModels ==
  <<"initialModel", "retrievedModel", "modelFromJob">>

\* for m in models: cleanUp(m): the resources m has created are deleted
CleanUp ==
  /\ Doing("cleanup", "start")
  /\ IF iter < Len(CleanupModels)
     THEN /\ endpoint' = [e \in EndpointNames |->
                            IF e \in handle[CleanupModels[iter + 1]].created
                            THEN "Deleted" ELSE endpoint[e]]
          /\ iter' = iter + 1
          /\ UNCHANGED <<line, phase>>
     ELSE /\ NextLine
          /\ iter' = 0
          /\ endpoint' = endpoint
  /\ UNCHANGED <<nb, error, tjob, handle, served, params>>
  /\ UNCHANGED <<debuggerVars, functionVars>>

(* ---------------------- a run of a tutorial notebook ------------------ *)
\* the debugger notebook is not open
NoDebugger ==
  /\ cell = 0
  /\ pc = "idle"
  /\ job = [t \in Trials |-> NotStarted]
  /\ written = [t \in Trials |-> 0]
  /\ description = NotStarted
  /\ trials = {}
  /\ rule = NoRule
  /\ tensors = EmptyDict
  /\ step = 0
  /\ todo = {}
  /\ failed = {}
  /\ errors = {}
  /\ raised = "-"
  /\ unhandled = "-"
  /\ aggCount = NoCounts
  /\ notified = NoNotifications
  /\ result = "-"
  /\ captured = EmptyDict
  /\ heap = EmptyDict

\* a fresh kernel is about to run the first cell of one of the notebooks
InitTutorials ==
  /\ NoDebugger
  /\ NoFilter
  /\ NoDisplay
  /\ nb \in Notebooks
  /\ line = 1
  /\ phase = "start"
  /\ error = "-"
  /\ tjob = NoJobs
  /\ endpoint = NoEndpoints
  /\ handle = EmptyDict
  /\ iter = 0
  /\ served = "-"
  /\ params = EmptyDict

NextTutorials ==
  \/ Local
  \/ SpotConfig
  \/ Estimator
  \/ JobName
  \/ CallJob
  \/ \E j \in JobNames : TrainingCompletes(j)
  \/ \E j \in JobNames : TrainingFails(j)
  \/ SpotInterruption
  \/ SpotResumption
  \/ StoppingConditionMet
  \/ ReturnJob
  \/ CallDeploy
  \/ \E e \in EndpointNames : EndpointInService(e)
  \/ \E e \in EndpointNames : EndpointCreationFails(e)
  \/ ReturnDeploy
  \/ Construct
  \/ Transform
  \/ Predict
  \/ DeleteEndpoint
  \/ CleanUp

SpecTutorials ==
  InitTutorials /\ [][NextTutorials]_vars


(* ---------------------- displayClusters, one cluster ------------------ *)
\* data.select(...).cache().take(250): at most 250 images are shown
MaxDigits ==
  250

\* width = 5
Width ==
  5

\* Python a // b rounds towards minus infinity, as \div does
FloorDiv(a, b) ==
  a \div b

\* height = ((len(digits) - 1) // 5) + 1
Height(n) ==
  FloorDiv(n - 1, 5) + 1

\* one pass of `for cluster in range(10)`: the grid of the cluster is sized
DisplayCluster ==
  /\ height = {}
  /\ height' = {Height(digits)}
  /\ UNCHANGED <<debuggerVars, tutorialVars, tname, keys, digits>>

\* a cluster holds any number of the images taken, none included
InitDisplay ==
  /\ NoDebugger
  /\ NoTutorial
  /\ NoFilter
  /\ digits \in 0..MaxDigits
  /\ height = {}

SpecDisplay ==
  InitDisplay /\ [][DisplayCluster]_vars

(* ============================ properties ============================== *)
\* the names a rule is meant to select among the saved tensors
SelectedNames(kind) ==
  CASE kind = "ActivationOutputs" -> {"conv0_relu_output_0", "conv1_relu_output_0"}
    [] kind = "ActivationInputs"  -> {"conv0_relu_input_0", "conv1_relu_input_0"}
    [] kind \in {"GradientsLayer", "GradientsAcrossLayers"} ->
         {"gradient/conv0_weight", "gradient/conv1_weight", "gradient/dense0_weight"}
    [] kind = "WeightRatio"       -> {"conv0_weight", "conv1_weight"}
    [] kind = "Inputs"            -> {"conv0_input_0"}
    [] kind = "Outputs"           -> {"conv0_output_0"}

\* the names whose value was fetched by the invoke_at_step that has returned
Fetched ==
  SelectedNames(rule.kind) \ failed

\* rule.tensors[name][step] exists
HasEntry(n, s) ==
  /\ StrKey(n) \in DOMAIN tensors
  /\ IntKey(s) \in DOMAIN tensors[StrKey(n)]

C2_FetchErrorSkipped ==
  /\ raised \notin FetchExceptions
  /\ unhandled \notin FetchExceptions
  /\ (pc = "returned" /\ errors # {}) =>
       \A n \in Fetched : aggCount[<<n, step>>] >= 1

C2_Witness ==
  /\ pc = "returned"
  /\ rule.kind = "GradientsLayer"
  /\ step = 1
  /\ errors = {<<"gradient/conv0_weight", 0>>, <<"gradient/conv1_weight", 1>>}
  /\ aggCount[<<"gradient/conv0_weight", 1>>] = 1
  /\ aggCount[<<"gradient/dense0_weight", 1>>] = 1

\* the variances of the tensors fetched at the step that has returned
FetchedVariances ==
  {NpVar(TensorValue(rule.trial, n, step)) : n \in Fetched}

Smallest(S) ==
  CHOOSE v \in S : \A w \in S : ~RatLess(w, v)

Largest(S) ==
  CHOOSE v \in S : \A w \in S : ~RatLess(v, w)

\* C3: GradientsAcrossLayers: after invoke_at_step(s) has returned with at
\* least one tensor fetched, the pair recorded for s is (minimum, maximum)
\* of the variances of the tensors fetched at s, whatever the order in which
\* the names were visited.
C3_MinMaxOfVariances ==
  (pc = "returned" /\ IsAcross(rule.kind) /\ Fetched # {}) =>
    tensors[IntKey(step)] = <<Smallest(FetchedVariances), Largest(FetchedVariances)>>

\* element (i, j) of a tensor seen as batch rows of equal length
Element(tensor, i, j) ==
  tensor.data[(i - 1) * (Len(tensor.data) \div tensor.shape[1]) + j]

RECURSIVE ColumnTotal(_, _, _)
ColumnTotal(tensor, j, rows) ==
  IF rows = 0 THEN 0
  ELSE Element(tensor, rows, j) + ColumnTotal(tensor, j, rows - 1)

\* value is the batch average of tensor: value[j] * batch = sum_i tensor[i][j]
IsBatchAverage(value, tensor) ==
  LET batch == tensor.shape[1]
      width == Len(tensor.data) \div batch
  IN /\ value.shape = Tail(tensor.shape)
     /\ Len(value.data) = width
     /\ \A j \in 1..width :
          value.data[j][1] * batch = value.data[j][2] * ColumnTotal(tensor, j, batch)

C5_AtMostOnce ==
  \A k \in DOMAIN aggCount : aggCount[k] <= 1

\* C5 amended: one call of invoke_at_step(s) aggregates a (name, s) pair at
\* most once and aggregates no pair of another step, so a pair is aggregated
\* at most as often as its step is notified.
C5_OncePerNotification ==
  /\ [](\A k \in DOMAIN aggCount : aggCount[k] <= notified[k[2]])
  /\ [][\A k \in DOMAIN aggCount :
          aggCount'[k] # aggCount[k] =>
            /\ k[2] = step
            /\ aggCount'[k] = aggCount[k] + 1]_vars

C5_Witness ==
  /\ IsActivation(rule.kind)
  /\ pc = "returned"
  /\ notified[0] = 2
  /\ \E n \in TensorNames : aggCount[<<n, 0>>] = 2

\* every value the mapping holds in this state is still there, unchanged,
\* in the next state
EntriesKept ==
  \A k \in DOMAIN tensors :
    /\ k \in DOMAIN tensors'
    /\ IF k[1] = "str"
       THEN \A j \in DOMAIN tensors[k] :
              /\ j \in DOMAIN tensors'[k]
              /\ tensors'[k][j] = tensors[k][j]
       ELSE tensors'[k] = tensors[k]

\* C6 as stated: in every rule, once a value has been written for a key of
\* the mapping, no later operation of the same rule instance changes it.
C6_ReadOnlyOnceWritten ==
  [][rule'.id = rule.id => EntriesKept]_vars

\* C6 amended: a value once written is changed only by a further pass of
\* invoke_at_step for the same step: in the six per-name rules no value
\* changes while every step is notified once; when step s is notified again
\* the activation rules add to the values of s and the raw-snapshot rules
\* store the same tensor again; in GradientsAcrossLayers the pair of step s
\* is updated while invoke_at_step(s) visits further names and is not
\* changed by anything else.
C6_ChangedOnlyBySameStep ==
  [][\A k \in DOMAIN tensors :
       /\ k \in DOMAIN tensors'
       /\ IF k[1] = "str"
          THEN \A j \in DOMAIN tensors[k] :
                 /\ j \in DOMAIN tensors'[k]
                 /\ tensors'[k][j] # tensors[k][j] =>
                      /\ IsActivation(rule.kind)
                      /\ pc = "at_step"
                      /\ j = IntKey(step)
                      /\ notified[step] >= 2
          ELSE tensors'[k] # tensors[k] =>
                 /\ IsAcross(rule.kind)
                 /\ pc = "at_step"
                 /\ k = IntKey(step)]_vars

C6_Witness ==
  /\ pc = "returned"
  /\ step = 1
  /\ notified = [s \in Steps |-> IF s <= 1 THEN 1 ELSE 0]
  /\ rule.kind = "GradientsLayer"
  /\ aggCount[<<"gradient/conv0_weight", 0>>] = 1
  /\ aggCount[<<"gradient/conv0_weight", 1>>] = 1
  /\ aggCount[<<"gradient/conv1_weight", 1>>] = 1

\* C7: the NoMoreData that ends invoke_rule is caught by the cell: it never
\* reaches the top level, nothing is accumulated after it, and the cell that
\* follows (the plot) finds the mapping as it was when the signal came.
C7_NoMoreDataCaught ==
  /\ [](unhandled # "NoMoreData")
  /\ [][raised = "NoMoreData" =>
          /\ tensors' = tensors
          /\ aggCount' = aggCount
          /\ pc' \in {"raised", "start"}
          /\ pc' = "start" => (cell' = cell + 1 /\ Program[cell'].op = "plot")]_vars

C7_Witness ==
  /\ At("plot", "start")
  /\ raised = "-"
  /\ unhandled = "-"
  /\ step = 2
  /\ tensors # EmptyDict

\* C8 as stated: in every rule, every outer key of tensors is a selected
\* tensor name and every inner key is a step.
C8_NameThenStep ==
  \A k \in DOMAIN tensors :
    /\ k[1] = "str"
    /\ k[2] \in SelectedNames(rule.kind)
    /\ \A j \in DOMAIN tensors[k] : j[1] = "int" /\ j[2] \in Steps

\* C8 amended: in the six per-name rules every outer key of tensors is a
\* selected tensor name and every inner key is a step; in
\* GradientsAcrossLayers every key is a step and its value is a pair.
C8_MappingShape ==
  IF IsAcross(rule.kind)
  THEN \A k \in DOMAIN tensors :
         /\ k[1] = "int"
         /\ k[2] \in Steps
         /\ Len(tensors[k]) = 2
  ELSE C8_NameThenStep

C8_Witness ==
  /\ pc = "returned"
  /\ step = 1
  /\ \/ /\ IsAcross(rule.kind)
        /\ DOMAIN tensors = {IntKey(0), IntKey(1)}
     \/ /\ rule.kind = "WeightRatio"
        /\ DOMAIN tensors = {StrKey("conv0_weight"), StrKey("conv1_weight")}
        /\ DOMAIN tensors[StrKey("conv0_weight")] = {IntKey(0), IntKey(1)}

\* C9: when the job started with fit(wait=False) is seen to have failed or
\* to have been stopped, the notebook surfaces the failure: it neither waits
\* on for the job nor goes on to the cells that follow the status check.
C9_JobFailureSurfaced ==
  description.TrainingJobStatus \in {"Failed", "Stopped"} =>
    \/ At("poll", "start")
    \/ At("poll", "while")
    \/ (pc = "stopped" /\ unhandled # "-")

\* C10: when the polling cell has finished and create_trial is about to
\* run, the job description observed last has TrainingJobStatus Completed
\* or SecondaryStatus Training or Completed.
C10_TrialAfterStatusCheck ==
  At("create_trial", "start") =>
    \/ description.TrainingJobStatus = "Completed"
    \/ description.SecondaryStatus \in {"Training", "Completed"}

C10_Witness ==
  /\ At("create_trial", "start")
  /\ Current.trial = 2
  /\ description = Status("InProgress", "Training")
  /\ job[2] = Status("InProgress", "Uploading")

\* C11: every rule run terminates: once a rule cell has been started, the
\* job of its trial ends, the steps it saved are consumed, invoke_rule ends
\* with NoMoreData and the notebook goes on to the cell that follows.
C11_RuleRunTerminates ==
  (Running /\ Current.op = "rule")
    ~> (At("plot", "start") /\ raised = "-" /\ unhandled = "-")

C11_Witness ==
  /\ At("plot", "start")
  /\ Program[cell - 1].kind = "Outputs"
  /\ job[1].TrainingJobStatus = "Completed"
  /\ notified = [s \in Steps |-> 1]
  /\ unhandled = "-"

\* the sum over the batch dimension of feature j of the tensors of name n
\* fetched at the steps 0..s that the rule has processed
RECURSIVE BatchAndStepTotal(_, _, _)
BatchAndStepTotal(n, j, s) ==
  IF s < 0 THEN 0
  ELSE (IF HasEntry(n, s)
        THEN ColumnTotal(TensorValue(rule.trial, n, s), j,
                         TensorValue(rule.trial, n, s).shape[1])
        ELSE 0)
       + BatchAndStepTotal(n, j, s - 1)

\* C13: the value ActivationOutputs holds for a ReLU-output tensor n after
\* step s is the sum of the activations of n over the batch dimension and
\* over all the steps processed so far.
C13_SumOverBatchAndSteps ==
  rule.kind = "ActivationOutputs" =>
    \A n \in TensorNames, s \in Steps :
      HasEntry(n, s) =>
        LET value == tensors[StrKey(n)][IntKey(s)]
        IN \A j \in 1..Len(value.data) :
             value.data[j] = Rat(BatchAndStepTotal(n, j, s), 1)

\* the names whose tensor the running rule instance has recorded
Recorded ==
  {n \in TensorNames : \E s \in Steps : aggCount[<<n, s>>] > 0}

Relu ==
  <<"r","e","l","u">>

Gradient ==
  <<"g","r","a","d","i","e","n","t">>

\* the literal a name must contain to match the regex of a rule
RegexLiteral(kind) ==
  CASE kind = "ActivationOutputs" -> Relu \o <<"_","o","u","t","p","u","t">>
    [] kind = "ActivationInputs"  -> Relu \o <<"_","i","n","p","u","t">>
    [] kind \in {"GradientsLayer", "GradientsAcrossLayers"} -> Gradient
    [] kind = "WeightRatio"       -> <<"w","e","i","g","h","t">>
    [] kind = "Inputs"            -> <<"i","n","p","u","t">>
    [] kind = "Outputs"           -> <<"o","u","t","p","u","t">>

\* C14: every rule records only tensors its filter selects: a recorded name
\* matches the regular expression of the rule and does not contain the
\* substring the rule excludes; Inputs and Outputs never record a name that
\* contains "relu", WeightRatio never one that contains "gradient"; and the
\* per-name mappings have no key besides the recorded names.
C14_OnlyFilteredNames ==
  /\ \A n \in Recorded :
       /\ Contains(NameText(n), RegexLiteral(rule.kind))
       /\ IsActivation(rule.kind) => ~Contains(NameText(n), Gradient \o <<"s">>)
       /\ rule.kind \in {"Inputs", "Outputs"} => ~Contains(NameText(n), Relu)
       /\ rule.kind = "WeightRatio" => ~Contains(NameText(n), Gradient)
  /\ ~IsAcross(rule.kind) => DOMAIN tensors = {StrKey(n) : n \in Recorded}

C14_Witness ==
  /\ rule.kind = "Inputs"
  /\ pc = "returned"
  /\ "conv0_relu_input_0" \in RegexNames("Inputs")
  /\ Recorded = {"conv0_input_0"}
  /\ DOMAIN tensors = {StrKey("conv0_input_0")}

\* C19: in every rule invoke_at_step returns False, whatever the step and
\* whatever the fetches did: the invoker is never stopped by a rule
\* condition, it goes on to the next step.
C19_AlwaysReturnsFalse ==
  /\ [](pc = "returned" => result = "False")
  /\ [][(pc = "returned" /\ pc' # pc)
          => (pc' = "invoke_rule" /\ step' = step + 1 /\ rule' = rule)]_vars

C19_Witness ==
  /\ rule.kind = "GradientsAcrossLayers"
  /\ pc = "invoke_rule"
  /\ step = 1
  /\ result = "False"
  /\ failed = RegexNames(rule.kind)
  /\ tensors = EmptyDict

IsRawSnapshot(kind) ==
  kind \in {"GradientsLayer", "WeightRatio", "Inputs", "Outputs"}

\* C20: the raw-snapshot rules store the raw tensor: the value recorded for
\* (n, s) is exactly the tensor fetched for n at step s, and nothing is
\* recorded under a step at which n was not fetched.
C20_RawSnapshot ==
  IsRawSnapshot(rule.kind) =>
    \A n \in TensorNames :
      StrKey(n) \in DOMAIN tensors =>
        /\ DOMAIN tensors[StrKey(n)] =
             {IntKey(s) : s \in {t \in Steps : aggCount[<<n, t>>] > 0}}
        /\ \A s \in Steps :
             HasEntry(n, s) =>
               tensors[StrKey(n)][IntKey(s)] = TensorValue(rule.trial, n, s)

C20_Witness ==
  /\ rule.kind = "WeightRatio"
  /\ pc = "returned"
  /\ step = 0
  /\ notified = [s \in Steps |-> IF s <= 1 THEN 1 ELSE 0]
  /\ HasEntry("conv1_weight", 0)
  /\ HasEntry("conv1_weight", 1)
  /\ tensors[StrKey("conv1_weight")][IntKey(1)] =
       [shape |-> <<1, 3>>, data |-> <<0, 2, -2>>]
  /\ tensors[StrKey("conv1_weight")][IntKey(0)] =
       [shape |-> <<1, 3>>, data |-> <<0, 1, -1>>]

\* the sub-mappings the comparison dictionary leads to, by label
CapturedValues ==
  [l \in DOMAIN captured |-> Deref(captured[l])]

\* C12: each rule instance starts with an empty mapping, and running a new
\* instance, on the same trial or on the other one, leaves what was captured
\* from earlier instances as it was: a label of dict_gradients or of
\* dict_activation_inputs keeps leading to the same sub-mapping with the
\* same entries.
C12_InstancesIndependent ==
  /\ [][rule' # rule => tensors' = EmptyDict]_vars
  /\ [][\A l \in DOMAIN captured :
          /\ l \in DOMAIN captured'
          /\ CapturedValues'[l] = CapturedValues[l]]_vars

C12_Witness ==
  /\ At("plot", "start")
  /\ rule.kind = "GradientsLayer"
  /\ rule.trial = 2
  /\ failed = {}
  /\ DOMAIN captured =
       {Label(n, t) : n \in {"gradient/conv0_weight", "gradient/conv1_weight"},
                      t \in Trials}
  /\ CapturedValues[Label("gradient/conv1_weight", 1)][IntKey(0)] =
       [shape |-> <<2, 2>>, data |-> <<1, -1, 0, 0>>]
  /\ CapturedValues[Label("gradient/conv1_weight", 2)][IntKey(0)] =
       [shape |-> <<2, 2>>, data |-> <<2, -2, 0, 0>>]

\* C15: in the Managed Spot notebook, for either value of
\* train_use_spot_instances, train_max_wait is set (not None) exactly when
\* train_use_spot_instances is enabled, a set train_max_wait is at least
\* train_max_run, and the estimator is given these values as
\* use_spot_instances, max_run and max_wait.
C15_SpotMaxWait ==
  (nb = "spot" /\ DOMAIN params # {}) =>
    /\ (params.train_max_wait # None) <=> params.train_use_spot_instances
    /\ \A w \in params.train_max_wait : w >= params.train_max_run
    /\ "mnist_estimator" \in DOMAIN handle =>
         /\ handle["mnist_estimator"].use_spot_instances =
              params.train_use_spot_instances
         /\ handle["mnist_estimator"].max_run = Some(params.train_max_run)
         /\ handle["mnist_estimator"].max_wait = params.train_max_wait
    /\ error # "ValidationException"

C15_Witness ==
  /\ nb = "spot"
  /\ Finished
  /\ ~params.train_use_spot_instances
  /\ params.train_max_wait = None
  /\ handle["mnist_estimator"].max_wait = None
  /\ handle["mnist_estimator"].max_run = Some(TrainMaxRun)
  /\ tjob["training"] = "Completed"

\* the statements of the K-Means notebook that build and use attachedModel
AtAttachedModel ==
  /\ nb = "kmeans"
  /\ Active
  /\ Here.var = "attachedModel"

\* C16: in the K-Means notebook, building attachedModel with
\* EndpointCreationPolicy.DO_NOT_CREATE and running transform through it
\* leave the endpoints as they are, none is created; the request of the
\* transform is served by the endpoint the initial fit has created.
C16_AttachCreatesNothing ==
  /\ [][AtAttachedModel => endpoint' = endpoint]_vars
  /\ [][(AtAttachedModel /\ Here.op = "transform" /\ line' = line + 1) =>
          /\ served' = handle["initialModel"].endpointName
          /\ served' \in handle["initialModel"].created
          /\ handle'["attachedModel"].created = {}]_vars

C16_Witness ==
  /\ nb = "kmeans"
  /\ Active
  /\ Here = St("assign", "MODEL_S3_PATH")
  /\ handle["attachedModel"] = Model("sparksm-1a", "DO_NOT_CREATE", {})
  /\ served = "sparksm-1a"
  /\ endpoint = [NoEndpoints EXCEPT !["sparksm-1a"] = "InService"]

\* the endpoints a run of the notebook has created
Created ==
  {e \in EndpointNames : endpoint[e] # "-"}

Stage(st) ==
  CASE st.op = "setup"                              -> 1
    [] st.op = "data"                               -> 2
    [] st.op = "estimator"                          -> 3
    [] st.op \in {"fit", "compile"}                 -> 4
    [] st.op = "deploy"                             -> 5
    [] st.op \in {"predict", "transform", "display"} -> 6
    [] st.op \in {"delete", "cleanup"}              -> 7
    [] OTHER                                        -> 0

\* the latest stage among the first k statements of notebook n
RECURSIVE StageReached(_, _)
StageReached(n, k) ==
  IF k = 0 THEN 0
  ELSE LET before == StageReached(n, k - 1)
           here == Stage(Cells(n)[k])
       IN IF here > before THEN here ELSE before

C22_KeysOnlyGrow ==
  [][rule'.id = rule.id =>
       \A k \in DOMAIN tensors :
         /\ k \in DOMAIN tensors'
         /\ k[1] = "str" => DOMAIN tensors[k] \subseteq DOMAIN tensors'[k]]_vars

C22_Witness ==
  /\ rule.kind = "Outputs"
  /\ pc = "returned"
  /\ step = 1
  /\ failed = {}
  /\ DOMAIN tensors = {StrKey("conv0_output_0")}
  /\ DOMAIN tensors[StrKey("conv0_output_0")] = {IntKey(0), IntKey(1)}

\* the notebook is in one of its status polling cells
Polling ==
  /\ Running
  /\ Current.op = "poll"

\* C23: the status polling loop terminates: once the polling cell has been
\* started the notebook eventually leaves it, whatever the outcome of the
\* training job (Completed, Failed or Stopped).
C23_PollingTerminates ==
  Polling ~> ~Polling

\* C24: GradientsAcrossLayers: when invoke_at_step(s) has returned with at
\* least one tensor fetched at s, the first component of the pair recorded
\* for s is at most the second, whatever the number of tensors fetched and
\* the order of their variances.
C24_MinBelowMax ==
  (pc = "returned" /\ IsAcross(rule.kind) /\ Fetched # {}) =>
    ~RatLess(tensors[IntKey(step)][2], tensors[IntKey(step)][1])

\* C25: in every rule a fetch failure for (n, s) leaves the accumulated
\* mapping exactly as it was before the name was processed: the pass that
\* logs the failure changes nothing, and a pair whose fetch only ever failed
\* has no outer key, inner key or placeholder value of its own.
C25_FetchFailureLeavesMapping ==
  /\ [][(rule' = rule /\ errors' # errors) => tensors' = tensors]_vars
  /\ [](\A e \in errors :
          aggCount[e] = 0 =>
            /\ ~HasEntry(e[1], e[2])
            /\ (\A s \in Steps : aggCount[<<e[1], s>>] = 0) =>
                 StrKey(e[1]) \notin DOMAIN tensors
            /\ (\A n \in TensorNames : aggCount[<<n, e[2]>>] = 0) =>
                 IntKey(e[2]) \notin DOMAIN tensors)

C25_Witness ==
  /\ rule.kind = "ActivationOutputs"
  /\ pc = "returned"
  /\ step = 1
  /\ errors = {<<"conv1_relu_output_0", 0>>, <<"conv1_relu_output_0", 1>>,
               <<"conv0_relu_output_0", 1>>}
  /\ DOMAIN tensors = {StrKey("conv0_relu_output_0")}
  /\ DOMAIN tensors[StrKey("conv0_relu_output_0")] = {IntKey(0)}

\* C26: ActivationOutputs and ActivationInputs: every value the mapping
\* holds when invoke_at_step has returned is a batch average of a fetched
\* tensor; when the processing of a fetched tensor raises after the fetch,
\* no entry holding the initial placeholder 0 is left for that (name, step).
C26_NoPlaceholderLeft ==
  (IsActivation(rule.kind) /\ pc = "returned") =>
    \A n \in TensorNames, s \in Steps :
      HasEntry(n, s) => tensors[StrKey(n)][IntKey(s)] # PyZero

\* C28: invoking a raw-snapshot rule (GradientsLayer, WeightRatio, Inputs,
\* Outputs) again at a step it has processed is idempotent, the saved value
\* of a tensor at a step being always the same: the pass over a name that
\* already has an entry for the step leaves the mapping exactly as it was.
C28_RepeatIdempotent ==
  [][(/\ IsRawSnapshot(rule.kind)
      /\ pc = "at_step"
      /\ \E n \in todo : n \notin todo' /\ HasEntry(n, step)) =>
       tensors' = tensors]_vars

C28_Witness ==
  /\ rule.kind = "Inputs"
  /\ pc = "returned"
  /\ step = 0
  /\ notified[0] = 2
  /\ aggCount[<<"conv0_input_0", 0>>] = 2
  /\ tensors = DictSet(EmptyDict, StrKey("conv0_input_0"),
                       DictSet(EmptyDict, IntKey(0),
                               TensorValue(1, "conv0_input_0", 0)))

\* the notebook is about to send an inference request: a transform whose
\* endpoint exists, displayClusters, or one more predict of a loop
AboutToRequest ==
  \/ Doing("transform", "invoke")
  \/ Doing("transform", "start") /\ ~NeedsEndpoint(Here.var)
  \/ Doing("display", "start")
  \/ Doing("predict", "start") /\ iter < PredictRequests

\* C27: no inference request is issued against an endpoint that has been
\* deleted: the endpoint a transform or a predict is about to address is in
\* service; in the K-Means notebook nothing is deleted before the clean-up
\* loop, which follows the four transforms, and in the Neo notebook an
\* endpoint is deleted only when the predict loop of its predictor is over.
C27_NoRequestAfterDelete ==
  /\ [](AboutToRequest =>
          endpoint[handle[Here.var].endpointName] = "InService")
  /\ []((nb = "kmeans" /\ Active /\ Here.op # "cleanup") =>
          \A e \in EndpointNames : endpoint[e] # "Deleted")
  /\ [][(AboutToRequest /\ phase' # "stopped") =>
          /\ served' = handle[Here.var].endpointName
          /\ endpoint[served'] # "Deleted"]_vars

C27_Witness ==
  /\ nb = "neo"
  /\ Doing("delete", "start")
  /\ Here.var = "optimized_predictor"
  /\ served = "neo"
  /\ endpoint["neo"] = "InService"
  /\ endpoint["tensorflow"] = "Deleted"

\* C29: displayClusters: for a cluster of n digits, 0 <= n <= 250, the
\* subplot grid has ((n - 1) // 5) + 1 rows of 5 columns: at least one row,
\* at least n cells, and fewer than 5 cells left unused.
C29_GridFitsDigits ==
  \A h \in height :
    /\ h = ((digits - 1) \div 5) + 1
    /\ h >= 1
    /\ h * Width >= digits
    /\ h * Width - digits < 5

\* the name marks the tensor as a gradient: it has the form "gradient/..."
\* or it contains "gradients"
MarksGradient(text) ==
  \/ OccursAt(text, <<"g","r","a","d","i","e","n","t","/">>, 1)
  \/ Contains(text, <<"g","r","a","d","i","e","n","t","s">>)

====
